---- MODULE Spec2Model ----
(***************************************************************************)
(* Review service of src/main.py: a keyword classifier (predict), a SQLite *)
(* table of reviews (lifespan, write_into_db, read_from_db) and the two    *)
(* HTTP handlers (add_review, get_reviews).                                *)
(*                                                                         *)
(* Text is a sequence of Unicode code points, as a Python str is; the      *)
(* created_at column is the code-point sequence that isoformat() returns,  *)
(* and ORDER BY compares those sequences the way SQLite compares TEXT.     *)
(***************************************************************************)
EXTENDS Integers, Sequences, FiniteSets, TLC

VARIABLES
    started,      \* the process is up: lifespan has run to its yield
    tableExists,  \* reviews.db holds the table reviews
    rows,         \* the table reviews, in rowid order
    seq,          \* sqlite_sequence: the largest rowid AUTOINCREMENT has assigned
    inflight,     \* POST bodies the server has read whose handler has not run yet
    resp,         \* the response of the handler that ran last
    openConns,    \* sqlite3 connections that were opened and not closed
    clockAt,      \* history: clockAt[id] is the clock reading the submit of row id took
    text,         \* classifier harness: the input of predict
    label         \* classifier harness: the output of predict, "unset" before the call

vars == <<started, tableExists, rows, seq, inflight, resp, openConns, clockAt, text, label>>

storeVars == <<tableExists, rows, seq, clockAt>>

harnessVars == <<text, label>>

(***************************************************************************)
(* Bounds of the model.                                                    *)
(***************************************************************************)
MaxRows == 3

MaxInFlight == 2

MaxLeaked == 1

MaxFrags == 2

(***************************************************************************)
(* The keyword table, as code points.                                      *)
(***************************************************************************)
\* "люблю"
Lyublyu == <<1083, 1102, 1073, 1083, 1102>>

\* "хорошо"
Khorosho == <<1093, 1086, 1088, 1086, 1096, 1086>>

\* "отлично"
Otlichno == <<1086, 1090, 1083, 1080, 1095, 1085, 1086>>

\* "плохо"
Plokho == <<1087, 1083, 1086, 1093, 1086>>

\* "ужасно"
Uzhasno == <<1091, 1078, 1072, 1089, 1085, 1086>>

\* "отвратительно"
Otvratitelno == <<1086, 1090, 1074, 1088, 1072, 1090, 1080, 1090, 1077, 1083, 1100, 1085, 1086>>

\* Mutant: the two categories declared the other way round.
NegativeFirstClassifier ==
    << [key |-> "negative", value |-> <<Plokho, Uzhasno, Otvratitelno>>],
       [key |-> "positive", value |-> <<Lyublyu, Khorosho, Otlichno>>] >>

\* The dict keeps insertion order: positive is scanned before negative.
SENTIMENT_CLASSIFIER ==
    << [key |-> "positive", value |-> <<Lyublyu, Khorosho, Otlichno>>],
       [key |-> "negative", value |-> <<Plokho, Uzhasno, Otvratitelno>>] >>

\* Python's `item in text` on str: item occurs as a contiguous run of text.
Contains(item, t) ==
    \E i \in 1..(Len(t) - Len(item) + 1) : SubSeq(t, i, i + Len(item) - 1) = item

\* The inner loop of predict from item j on: TRUE iff it reaches `return key`.
RECURSIVE ScanItems(_, _, _)
ScanItems(value, t, j) ==
    IF j > Len(value) THEN FALSE
    ELSE IF Contains(value[j], t) THEN TRUE
    ELSE ScanItems(value, t, j + 1)

\* The outer loop of predict from category i on, with the for/else's "neutral".
RECURSIVE ScanCategories(_, _)
ScanCategories(t, i) ==
    IF i > Len(SENTIMENT_CLASSIFIER) THEN "neutral"
    ELSE IF ScanItems(SENTIMENT_CLASSIFIER[i].value, t, 1) THEN SENTIMENT_CLASSIFIER[i].key
    ELSE ScanCategories(t, i + 1)

predict(t) == ScanCategories(t, 1)

\* The pieces classifier inputs are put together from: the six keywords, a
\* space, "не", "хорош" (a keyword cut short) and "Отлично" (capitalised).
Fragments ==
    {Lyublyu, Khorosho, Otlichno, Plokho, Uzhasno, Otvratitelno,
     <<32>>, <<1085, 1077>>, <<1093, 1086, 1088, 1086, 1096>>,
     <<1054, 1090, 1083, 1080, 1095, 1085, 1086>>}

\* All texts of at most n fragments.
RECURSIVE TextsOf(_)
TextsOf(n) ==
    IF n = 0 THEN {<<>>}
    ELSE LET shorter == TextsOf(n - 1)
         IN  shorter \cup {t \o f : t \in shorter, f \in Fragments}

ClassifierTexts == TextsOf(MaxFrags)

(***************************************************************************)
(* datetime.now(timezone.utc).isoformat() and SQLite's TEXT ordering.      *)
(***************************************************************************)
\* "2026-10-31T": the day the modelled clock runs in.
ClockDay == <<50, 48, 50, 54, 45, 49, 48, 45, 51, 49, 84>>

\* Mutant: the offset written as "Z".
ZuluSuffix == <<90>>

\* "+00:00"
UtcOffset == <<43, 48, 48, 58, 48, 48>>

\* datetime.now(timezone.utc) reads the wall clock, which nothing in the
\* program constrains: every call returns any of these readings, in
\* microseconds since midnight of ClockDay. They are a whole second (isoformat
\* drops the fraction), one microsecond later, and the next minute.
ClockReadings == {0, 1, 60000000}

Digit(d) == 48 + d

Pad2(n) == <<Digit((n \div 10) % 10), Digit(n % 10)>>

Pad6(n) ==
    <<Digit((n \div 100000) % 10), Digit((n \div 10000) % 10), Digit((n \div 1000) % 10),
      Digit((n \div 100) % 10), Digit((n \div 10) % 10), Digit(n % 10)>>

\* isoformat() of an aware UTC datetime: HH:MM:SS, then .ffffff only when the
\* microsecond is not 0, then the offset.
isoformat(us) ==
    LET sec   == us \div 1000000
        micro == us % 1000000
    IN  ClockDay \o Pad2(sec \div 3600) \o <<58>> \o Pad2((sec \div 60) % 60) \o <<58>>
          \o Pad2(sec % 60)
          \o (IF micro = 0 THEN <<>> ELSE <<46>> \o Pad6(micro))
          \o UtcOffset

\* SQLite's BINARY collation on TEXT: bytewise, a proper prefix sorts first.
RECURSIVE LessFrom(_, _, _)
LessFrom(a, b, k) ==
    IF k > Len(a) THEN k <= Len(b)
    ELSE IF k > Len(b) THEN FALSE
    ELSE IF a[k] # b[k] THEN a[k] < b[k]
    ELSE LessFrom(a, b, k + 1)

TextLess(a, b) == LessFrom(a, b, 1)

\* Mutant: the comparison turned round, which sorts ascending.
RECURSIVE KeepBeforeAscending(_, _)
KeepBeforeAscending(sorted, c) ==
    IF sorted = <<>> \/ TextLess(c, sorted[1].created_at) THEN 0
    ELSE 1 + KeepBeforeAscending(Tail(sorted), c)

\* How many leading rows of a descending list stay in front of created_at c:
\* those that are not less than c.
RECURSIVE KeepBefore(_, _)
KeepBefore(sorted, c) ==
    IF sorted = <<>> \/ TextLess(sorted[1].created_at, c) THEN 0
    ELSE 1 + KeepBefore(Tail(sorted), c)

\* Mutant: the statement without its ORDER BY clause.
ScanOrder(rs) == rs

\* ORDER BY created_at DESC over rows scanned in rowid order. SQLite's sorter
\* keeps rows with equal keys in scan order.
RECURSIVE OrderByCreatedAtDesc(_)
OrderByCreatedAtDesc(rs) ==
    IF rs = <<>> THEN <<>>
    ELSE LET r      == rs[Len(rs)]
             sorted == OrderByCreatedAtDesc(SubSeq(rs, 1, Len(rs) - 1))
             k      == KeepBefore(sorted, r.created_at)
         IN  SubSeq(sorted, 1, k) \o <<r>> \o SubSeq(sorted, k + 1, Len(sorted))

(***************************************************************************)
(* Requests and responses.                                                 *)
(***************************************************************************)
\* A POST body: the field text is there or not.
ReviewRequest(t) == [has |-> TRUE, text |-> t]

NoTextBody == [has |-> FALSE, text |-> <<>>]

\* The texts the model posts: "" (no keyword), "отлично" and "плохо".
ReviewTexts == {<<>>, Otlichno, Plokho}

Bodies == {NoTextBody} \cup {ReviewRequest(t) : t \in ReviewTexts}

\* The bodies the model keeps in flight.
InFlightBodies == {NoTextBody, ReviewRequest(<<>>), ReviewRequest(Otlichno)}

\* The query parameter sentiment: None when not given.
NoneQuery == [given |-> FALSE, value |-> ""]

Query(v) == [given |-> TRUE, value |-> v]

Queries == {NoneQuery} \cup {Query(v) : v \in {"positive", "negative", "neutral", "mixed", ""}}

Response(op, status, query, body, store) ==
    [op |-> op, status |-> status, query |-> query, body |-> body, store |-> store]

NoResponse == Response("none", 0, NoneQuery, <<>>, "untouched")

ReviewResponse(id, t, sentiment, created_at) ==
    [id |-> id, text |-> t, sentiment |-> sentiment, created_at |-> created_at]

(***************************************************************************)
(* The store.                                                              *)
(***************************************************************************)
\* INTEGER PRIMARY KEY AUTOINCREMENT: one more than the largest rowid ever assigned.
NextRowid(s) == s + 1

\* sqlite3.connect: one more open connection.
create_db_connection(n) == n + 1

\* conn.close()
Close(n) == n - 1

\* Mutant: the unfiltered statement whatever the label.
read_from_db_unfiltered(filter_label, rs) == OrderByCreatedAtDesc(rs)

\* read_from_db when its statement runs: the rows the SELECT returns, in order.
\* `if filter_label:` takes the filtered statement only for a non-empty string.
read_from_db(filter_label, rs) ==
    IF filter_label.given /\ filter_label.value # ""
    THEN OrderByCreatedAtDesc(SelectSeq(rs, LAMBDA r : r.sentiment = filter_label.value))
    ELSE OrderByCreatedAtDesc(rs)

\* write_into_db, with utcnow the reading datetime.now returns. done = TRUE:
\* INSERT and commit succeed, the connection is closed and the stored values
\* are returned. done = FALSE: execute or commit raises, nothing is stored,
\* and the exception leaves the function before conn.close() is reached.
write_into_db(data, lbl, utcnow, done) ==
    IF done
    THEN LET created_at == isoformat(utcnow)
             review_id  == NextRowid(seq)
         IN  /\ Len(rows) < MaxRows
             /\ rows' = Append(rows, ReviewResponse(review_id, data.text, lbl, created_at))
             /\ seq' = review_id
             /\ clockAt' = (review_id :> utcnow) @@ clockAt
             /\ openConns' = Close(create_db_connection(openConns))
             /\ resp' = Response("add_review", 200, NoneQuery,
                                 <<ReviewResponse(review_id, data.text, lbl, created_at)>>,
                                 "inserted")
             /\ UNCHANGED tableExists
    ELSE /\ openConns < MaxLeaked
         /\ openConns' = create_db_connection(openConns)
         /\ resp' = Response("add_review", 500, NoneQuery, <<>>, "failed")
         /\ UNCHANGED storeVars

(***************************************************************************)
(* The process and its handlers.                                           *)
(***************************************************************************)
\* Mutant: the table is created anew at every start.
lifespan_recreate ==
    /\ ~started
    /\ started' = TRUE
    /\ tableExists' = TRUE
    /\ rows' = <<>>
    /\ seq' = 0
    /\ clockAt' = <<>>
    /\ openConns' = Close(create_db_connection(openConns))
    /\ UNCHANGED <<inflight, resp, harnessVars>>

\* lifespan up to its yield: CREATE TABLE IF NOT EXISTS, commit, close.
lifespan ==
    /\ ~started
    /\ started' = TRUE
    /\ tableExists' = TRUE
    /\ rows' = IF tableExists THEN rows ELSE <<>>
    /\ seq' = IF tableExists THEN seq ELSE 0
    /\ clockAt' = IF tableExists THEN clockAt ELSE <<>>
    /\ openConns' = Close(create_db_connection(openConns))
    /\ UNCHANGED <<inflight, resp, harnessVars>>

\* The process ends: requests in flight are dropped and the operating system
\* closes whatever connections the process still held; reviews.db stays.
Shutdown ==
    /\ started
    /\ started' = FALSE
    /\ inflight' = {}
    /\ resp' = NoResponse
    /\ openConns' = 0
    /\ UNCHANGED <<storeVars, harnessVars>>

\* The server has read a POST /reviews body; its handler has yet to run.
Arrive(body) ==
    /\ started
    /\ body \notin inflight
    /\ Cardinality(inflight) < MaxInFlight
    /\ inflight' = inflight \cup {body}
    /\ UNCHANGED <<started, storeVars, resp, openConns, harnessVars>>

\* POST /reviews. ReviewRequest requires the field text and puts no constraint
\* on the string; the coroutine has no await, so it runs from validation to
\* response with no other handler in between.
add_review(data, utcnow, done) ==
    /\ started
    /\ IF ~data.has
       THEN /\ resp' = Response("add_review", 422, NoneQuery, <<>>, "untouched")
            /\ done
            /\ UNCHANGED <<storeVars, openConns>>
       ELSE write_into_db(data, predict(data.text), utcnow, done)
    /\ UNCHANGED <<started, harnessVars>>

\* A POST whose handler runs as soon as the body is read.
Post(body, utcnow, done) ==
    /\ add_review(body, utcnow, done)
    /\ UNCHANGED inflight

\* The event loop runs the handler of one of the requests in flight.
Serve(body, utcnow, done) ==
    /\ body \in inflight
    /\ inflight' = inflight \ {body}
    /\ add_review(body, utcnow, done)

\* Mutant: only a non-empty value is checked against the accepted labels.
AcceptedWhenTruthy(sentiment) ==
    \/ ~sentiment.given
    \/ sentiment.value = ""
    \/ sentiment.value \in {"positive", "negative", "neutral"}

\* `sentiment not in ["positive", "negative", "neutral", None]`, negated.
Accepted(sentiment) ==
    sentiment \in {Query("positive"), Query("negative"), Query("neutral"), NoneQuery}

\* Mutant: an empty result is returned as a success.
EmptyIsSuccess(sentiment, result) == Response("get_reviews", 200, sentiment, result, "queried")

\* get_reviews after read_from_db returned: `if not result` raises 404.
ListOutcome(sentiment, result) ==
    IF result = <<>>
    THEN Response("get_reviews", 404, sentiment, <<>>, "queried")
    ELSE Response("get_reviews", 200, sentiment, result, "queried")

\* GET /reviews. done = FALSE: the SELECT raises and conn.close() is skipped.
get_reviews(sentiment, done) ==
    /\ started
    /\ IF ~Accepted(sentiment)
       THEN /\ resp' = Response("get_reviews", 400, sentiment, <<>>, "untouched")
            /\ done
            /\ UNCHANGED openConns
       ELSE IF done
       THEN /\ resp' = ListOutcome(sentiment, read_from_db(sentiment, rows))
            /\ openConns' = Close(create_db_connection(openConns))
       ELSE /\ openConns < MaxLeaked
            /\ openConns' = create_db_connection(openConns)
            /\ resp' = Response("get_reviews", 500, sentiment, <<>>, "failed")
    /\ UNCHANGED <<started, storeVars, inflight, harnessVars>>

\* The interpreter finalises a Connection object that an exception left
\* unclosed, once nothing refers to it any more.
Finalize ==
    /\ openConns > 0
    /\ openConns' = Close(openConns)
    /\ UNCHANGED <<started, storeVars, inflight, resp, harnessVars>>

Init ==
    /\ started = FALSE
    /\ tableExists = FALSE
    /\ rows = <<>>
    /\ seq = 0
    /\ inflight = {}
    /\ resp = NoResponse
    /\ openConns = 0
    /\ clockAt = <<>>
    /\ text = <<>>
    /\ label = "unset"

Next ==
    \/ lifespan
    \/ Shutdown
    \/ \E body \in Bodies, utcnow \in ClockReadings, done \in BOOLEAN : Post(body, utcnow, done)
    \/ \E sentiment \in Queries, done \in BOOLEAN : get_reviews(sentiment, done)
    \/ Finalize

Spec == Init /\ [][Next]_vars

\* The same process with POST requests waiting for the event loop. GET
\* /reviews writes nothing to the store and is left out.
NextInFlight ==
    \/ lifespan
    \/ Shutdown
    \/ \E body \in InFlightBodies : Arrive(body)
    \/ \E body \in InFlightBodies, utcnow \in ClockReadings, done \in BOOLEAN :
          Serve(body, utcnow, done)
    \/ Finalize

SpecInFlight == Init /\ [][NextInFlight]_vars

\* The classifier on its own: any text of ClassifierTexts goes through predict.
Classify ==
    /\ label = "unset"
    /\ label' = predict(text)
    /\ UNCHANGED <<started, storeVars, inflight, resp, openConns, text>>

InitClassify ==
    /\ started = FALSE
    /\ tableExists = FALSE
    /\ rows = <<>>
    /\ seq = 0
    /\ inflight = {}
    /\ resp = NoResponse
    /\ openConns = 0
    /\ clockAt = <<>>
    /\ text \in ClassifierTexts
    /\ label = "unset"

SpecClassify == InitClassify /\ [][Classify]_vars

(***************************************************************************)
(* Properties.                                                             *)
(***************************************************************************)
Labels == {"positive", "negative", "neutral"}

\* The indices of the rows a list with this query is to return.
Matching(query) ==
    {i \in 1..Len(rows) : ~query.given \/ rows[i].sentiment = query.value}

Elements(sq) == {sq[k] : k \in 1..Len(sq)}

\* kw occurs in t: t is some prefix, then kw, then some suffix.
Occurs(kw, t) ==
    \E a \in 0..Len(t) : \E b \in a..Len(t) : SubSeq(t, a + 1, b) = kw

ListAnswered == resp.op = "get_reviews" /\ resp.status = 200

SubmitAnswered == resp.op = "add_review" /\ resp.status = 200

\* C1: POST /reviews rejects an empty text before the classifier and the
\* store are reached, so every persisted Review, and every Review a submit
\* returns, has a non-empty text.
C1_TextNeverEmpty ==
    /\ \A i \in 1..Len(rows) : rows[i].text # <<>>
    /\ SubmitAnswered => resp.body[1].text # <<>>

\* C2: a successful list with filter f returns exactly the persisted Reviews
\* whose sentiment is f, each once; with no filter, exactly all of them.
C2_ListReturnsExactlyTheMatching ==
    ListAnswered =>
        /\ Elements(resp.body) = {rows[i] : i \in Matching(resp.query)}
        /\ Len(resp.body) = Cardinality(Matching(resp.query))

\* A negative-only list answered from a store that holds all three labels.
C2_Witness ==
    /\ ListAnswered
    /\ resp.query = Query("negative")
    /\ resp.body # <<>>
    /\ {rows[i].sentiment : i \in 1..Len(rows)} = Labels

\* C3: in every successful list no Review is preceded by one that was stamped
\* at a strictly earlier clock reading.
C3_ListNewestFirst ==
    ListAnswered =>
        \A i, j \in 1..Len(resp.body) :
            i < j => clockAt[resp.body[i].id] >= clockAt[resp.body[j].id]

\* An unfiltered list of three Reviews inserted at t1 < t2 < t3, returned as
\* t3, t2, t1.
C3_Witness ==
    /\ ListAnswered
    /\ resp.query = NoneQuery
    /\ Len(resp.body) = 3
    /\ clockAt[1] < clockAt[2]
    /\ clockAt[2] < clockAt[3]
    /\ <<resp.body[1].id, resp.body[2].id, resp.body[3].id>> = <<3, 2, 1>>

\* C4: a list whose query ran answers 404 with no body exactly when no
\* Review matches, and 200 with a non-empty body otherwise.
C4_EmptyResultIsNotFound ==
    (resp.op = "get_reviews" /\ resp.store = "queried") =>
        /\ Matching(resp.query) = {} => (resp.status = 404 /\ resp.body = <<>>)
        /\ Matching(resp.query) # {} => (resp.status = 200 /\ resp.body # <<>>)

\* A valid filter that matches nothing in a store that is not empty.
C4_Witness ==
    /\ resp.op = "get_reviews"
    /\ resp.status = 404
    /\ resp.query = Query("neutral")
    /\ rows # <<>>

\* C5: a list whose sentiment is given and is not one of the three labels
\* (the empty string included) is answered 400 without reaching the store,
\* and the step that answers it leaves the store and its connections alone.
C5_InvalidFilterRejectedBeforeStore ==
    /\ [](  (resp.op = "get_reviews" /\ resp.query.given /\ resp.query.value \notin Labels)
            => (resp.status = 400 /\ resp.store = "untouched" /\ resp.body = <<>>))
    /\ [][ (resp' # resp /\ resp'.op = "get_reviews" /\ resp'.status = 400)
            => UNCHANGED <<storeVars, openConns>> ]_vars

\* The empty string as filter, rejected while the store is empty (a valid
\* filter would have been answered 404).
C5_Witness ==
    /\ resp.op = "get_reviews"
    /\ resp.status = 400
    /\ resp.query = Query("")
    /\ started
    /\ rows = <<>>

C6_Positive == {Lyublyu, Khorosho, Otlichno}

C6_Negative == {Plokho, Uzhasno, Otvratitelno}

\* C6: predict returns positive when any positive keyword occurs in the text,
\* otherwise negative when any negative keyword occurs, otherwise neutral.
C6_FirstMatchWins ==
    label # "unset" =>
        /\ label \in Labels
        /\ label = IF \E kw \in C6_Positive : Occurs(kw, text) THEN "positive"
                   ELSE IF \E kw \in C6_Negative : Occurs(kw, text) THEN "negative"
                   ELSE "neutral"

\* "плохоотлично": the negative keyword comes first in the text, the label is
\* positive.
C6_Witness ==
    /\ label = "positive"
    /\ text = Plokho \o Otlichno

\* The Review that a successful submit returns is the row just persisted,
\* labelled by predict.
C7_SubmitReturnsTheRow ==
    SubmitAnswered' =>
        /\ resp'.body[1] = rows'[Len(rows')]
        /\ resp'.body[1].sentiment = predict(resp'.body[1].text)

\* An unfiltered list that is answered right after a successful submit and
\* whose query ran.
C7_ListFollowsSubmit ==
    /\ SubmitAnswered
    /\ resp'.op = "get_reviews"
    /\ resp'.query = NoneQuery
    /\ resp'.store = "queried"

\* C7 as claimed: the Review a successful submit returns is the row just
\* persisted, labelled by predict, and the unfiltered list answered next
\* returns it as its first element.
C7_SubmittedReviewListedFirst ==
    [][ /\ C7_SubmitReturnsTheRow
        /\ C7_ListFollowsSubmit =>
              (resp'.status = 200 /\ resp'.body[1] = resp.body[1]) ]_vars

\* C7 as amended: the unfiltered list answered next returns the Review, and
\* only Reviews whose created_at is not earlier than its own precede it.
C7_SubmittedReviewListedAmongNewest ==
    [][ /\ C7_SubmitReturnsTheRow
        /\ C7_ListFollowsSubmit =>
              /\ resp'.status = 200
              /\ \E k \in 1..Len(resp'.body) :
                    /\ resp'.body[k] = resp.body[1]
                    /\ \A j \in 1..(k - 1) :
                          ~TextLess(resp'.body[j].created_at, resp.body[1].created_at) ]_vars

\* The Review submitted last heads an unfiltered list over two older Reviews.
C7_Witness ==
    /\ ListAnswered
    /\ resp.query = NoneQuery
    /\ Len(resp.body) = 3
    /\ resp.body[1] = rows[Len(rows)]
    /\ TextLess(resp.body[2].created_at, resp.body[1].created_at)

\* C8: the ids of the persisted Reviews increase strictly in insertion order,
\* and the table only ever changes by one new row whose id is greater than
\* every id assigned before; no row loses or changes its id.
C8_IdsStrictlyIncreasing ==
    /\ [](\A i, j \in 1..Len(rows) : i < j => rows[i].id < rows[j].id)
    /\ [][ rows' # rows =>
              /\ Len(rows') = Len(rows) + 1
              /\ SubSeq(rows', 1, Len(rows)) = rows
              /\ \A i \in DOMAIN clockAt : i < rows'[Len(rows')].id ]_vars

\* Three Reviews persisted, the third one just returned by its submit.
C8_Witness ==
    /\ Len(rows) = 3
    /\ SubmitAnswered
    /\ resp.body[1].id = 3

C10_NoConnectionLeftOpen == openConns = 0

====
